---- MODULE Spec2Model ----
(***************************************************************************)
(* Model of the shell-completion engine: tokenizer and context extractor   *)
(* (core/utils.py), prediction engine and command table                    *)
(* (core/predictor.py) and cache layer (core/cache_manager.py).            *)
(*                                                                         *)
(* A Python str is modelled as a sequence of one-character strings, so     *)
(* slicing, startswith and lower are computed character by character.      *)
(* An Optional[str] that is None is the value None below.                  *)
(***************************************************************************)
EXTENDS Integers, Sequences, FiniteSets, TLC

\* ------------------------------------------------------------------ bounds
MaxLineLen == 4

\* ------------------------------------------------------- Python primitives
\* Python's None for an Optional[str]: a sequence no str can be equal to,
\* because every element of a str is a single character.
None == <<"<None>">>

\* No quote character is open (quote_char = None in the tokenizer).
NoChar == ""

Min(a, b) == IF a < b THEN a ELSE b

\* s[lo:hi] for 0 <= lo and 0 <= hi, with Python's clamping to len(s).
Slice(s, lo, hi) ==
    LET h == Min(hi, Len(s))
    IN  IF lo >= h THEN <<>> ELSE SubSeq(s, lo + 1, h)

\* str.isspace() on one character.
IsSpace(c) == c \in {" ", "\t", "\n"}

UpperChars == <<"A","B","C","D","E","F","G","H","I","J","K","L","M",
                "N","O","P","Q","R","S","T","U","V","W","X","Y","Z">>

LowerChars == <<"a","b","c","d","e","f","g","h","i","j","k","l","m",
                "n","o","p","q","r","s","t","u","v","w","x","y","z">>

\* The lower-case letter of each upper-case letter.
LowerOf ==
    [u \in {UpperChars[i] : i \in 1..26} |->
        LowerChars[CHOOSE i \in 1..26 : UpperChars[i] = u]]

LowerChar(c) == IF c \in DOMAIN LowerOf THEN LowerOf[c] ELSE c

\* str.lower()
Lower(s) == [i \in 1..Len(s) |-> LowerChar(s[i])]

\* s.startswith(p)
StartsWith(s, p) == Len(p) <= Len(s) /\ SubSeq(s, 1, Len(p)) = p

\* -------------------------------------------------------------- tokenizer
\* The loop with whitespace ending a token inside an open quote as well.
RECURSIVE TokLoop_split(_, _, _, _, _, _)
TokLoop_split(line, i, tokens, current_token, in_quotes, quote_char) ==
    IF i > Len(line)
    THEN IF current_token # <<>> THEN Append(tokens, current_token) ELSE tokens
    ELSE LET char == line[i] IN
         IF char \in {"\"", "'"}
         THEN IF ~in_quotes
              THEN TokLoop_split(line, i + 1, tokens, current_token, TRUE, char)
              ELSE IF char = quote_char
              THEN TokLoop_split(line, i + 1, tokens, current_token, FALSE,
                                 NoChar)
              ELSE TokLoop_split(line, i + 1, tokens,
                                 Append(current_token, char),
                                 in_quotes, quote_char)
         ELSE IF IsSpace(char)
         THEN IF current_token # <<>>
              THEN TokLoop_split(line, i + 1, Append(tokens, current_token),
                                 <<>>, in_quotes, quote_char)
              ELSE TokLoop_split(line, i + 1, tokens, current_token,
                                 in_quotes, quote_char)
         ELSE TokLoop_split(line, i + 1, tokens, Append(current_token, char),
                            in_quotes, quote_char)

\* The for-loop of tokenize_command_line, from character i (1-based) on.
RECURSIVE TokLoop(_, _, _, _, _, _)
TokLoop(line, i, tokens, current_token, in_quotes, quote_char) ==
    IF i > Len(line)
    THEN IF current_token # <<>> THEN Append(tokens, current_token) ELSE tokens
    ELSE LET char == line[i] IN
         IF char \in {"\"", "'"}
         THEN IF ~in_quotes
              THEN TokLoop(line, i + 1, tokens, current_token, TRUE, char)
              ELSE IF char = quote_char
              THEN TokLoop(line, i + 1, tokens, current_token, FALSE, NoChar)
              ELSE TokLoop(line, i + 1, tokens, Append(current_token, char),
                           in_quotes, quote_char)
         ELSE IF IsSpace(char) /\ ~in_quotes
         THEN IF current_token # <<>>
              THEN TokLoop(line, i + 1, Append(tokens, current_token), <<>>,
                           in_quotes, quote_char)
              ELSE TokLoop(line, i + 1, tokens, current_token,
                           in_quotes, quote_char)
         ELSE TokLoop(line, i + 1, tokens, Append(current_token, char),
                      in_quotes, quote_char)

tokenize_command_line(line) ==
    IF line = <<>> THEN <<>> ELSE TokLoop(line, 1, <<>>, <<>>, FALSE, NoChar)

\* ------------------------------------------------------ context extractor
\* Result of the word-start loop when line[i] is out of range (IndexError).
IndexError == -1

\* for i in range(cursor_pos - 1, -1, -1): i is the 0-based index, word_start
\* the value assigned so far.
RECURSIVE WordStartLoop(_, _, _)
WordStartLoop(line, i, word_start) ==
    IF i < 0 THEN word_start
    ELSE IF i >= Len(line) THEN IndexError
    ELSE IF IsSpace(line[i + 1]) THEN i + 1
    ELSE WordStartLoop(line, i - 1, i)

\* The word-end search left out: the word ends at the cursor.
WordEndLoop_at_cursor(line, i, word_end) == word_end

\* for i in range(cursor_pos, len(line))
RECURSIVE WordEndLoop(_, _, _)
WordEndLoop(line, i, word_end) ==
    IF i >= Len(line) THEN word_end
    ELSE IF IsSpace(line[i + 1]) THEN i
    ELSE WordEndLoop(line, i + 1, i + 1)

\* The dictionary returned for "not line or cursor_pos < 0" (it has no
\* 'tokens' entry in the source; the field is the empty sequence here).
EmptyContext ==
    [raised |-> FALSE, command |-> None, subcommand |-> None, args |-> <<>>,
     current_word |-> <<>>, word_start |-> 0, word_end |-> 0, tokens |-> <<>>]

\* What the caller sees when the index error escapes the function.
RaisedContext == [EmptyContext EXCEPT !.raised = TRUE]

\* The end-of-line rule: the word just typed counts as complete.
\* The rule without its test that the cursor is at the end of the line.
EndOfWordRule_anywhere(line, cursor_pos, current_word) ==
    IF /\ current_word # <<>>
       /\ current_word[Len(current_word)] # " "
       /\ cursor_pos > 0
       /\ ~IsSpace(line[cursor_pos])
    THEN <<>>
    ELSE current_word

\* The rule left out: the word under the cursor is always the current word.
EndOfWordRule_never(line, cursor_pos, current_word) == current_word

EndOfWordRule(line, cursor_pos, current_word) ==
    IF /\ cursor_pos = Len(line)
       /\ current_word # <<>>
       /\ current_word[Len(current_word)] # " "
       /\ cursor_pos > 0
       /\ ~IsSpace(line[cursor_pos])
    THEN <<>>
    ELSE current_word

extract_command_context(line, cursor_pos) ==
    IF line = <<>> \/ cursor_pos < 0 THEN EmptyContext
    ELSE LET partial_line == Slice(line, 0, cursor_pos)
             tokens       == tokenize_command_line(partial_line)
             word_start   == WordStartLoop(line, cursor_pos - 1, cursor_pos)
             word_end     == WordEndLoop(line, cursor_pos, cursor_pos)
         IN  IF word_start = IndexError THEN RaisedContext
             ELSE [raised       |-> FALSE,
                   command      |-> IF Len(tokens) > 0 THEN tokens[1] ELSE None,
                   subcommand   |-> IF Len(tokens) > 1 THEN tokens[2] ELSE None,
                   args         |-> IF Len(tokens) > 2
                                    THEN SubSeq(tokens, 3, Len(tokens))
                                    ELSE <<>>,
                   current_word |-> EndOfWordRule(line, cursor_pos,
                                        Slice(line, word_start, word_end)),
                   word_start   |-> word_start,
                   word_end     |-> word_end,
                   tokens       |-> tokens]

\* --------------------------------------------------------- knowledge base
\* list(COMMANDS.keys()): the command names in declared order.
CommandNames ==
    <<<<"g","i","t">>, <<"d","o","c","k","e","r">>, <<"l","s">>, <<"c","d">>,
      <<"c","p">>, <<"m","v">>, <<"r","m">>>>

\* The table as declared: for each command its subcommand list and its
\* flags dictionary (subcommand name, or the empty string, to flag list).
DeclaredCommands ==
    <<"g","i","t">> :>
      [subcommands |->
           <<<<"a","d","d">>, <<"c","o","m","m","i","t">>,
             <<"p","u","s","h">>, <<"p","u","l","l">>,
             <<"s","t","a","t","u","s">>,
             <<"c","h","e","c","k","o","u","t">>,
             <<"b","r","a","n","c","h">>, <<"m","e","r","g","e">>,
             <<"l","o","g">>, <<"d","i","f","f">>>>,
       flags |->
           <<"a","d","d">> :>
               <<<<"-","A">>, <<"-","-","a","l","l">>, <<"-","p">>,
                 <<"-","-","p","a","t","c","h">>, <<"-","u">>,
                 <<"-","-","u","p","d","a","t","e">>>> @@
           <<"c","o","m","m","i","t">> :>
               <<<<"-","m">>, <<"-","-","m","e","s","s","a","g","e">>,
                 <<"-","-","a","m","e","n","d">>,
                 <<"-","-","s","i","g","n","o","f","f">>, <<"-","a">>,
                 <<"-","-","a","l","l">>>> @@
           <<"p","u","s","h">> :>
               <<<<"-","u">>,
                 <<"-","-","s","e","t","-","u","p","s","t","r","e","a","m">>,
                 <<"-","-","f","o","r","c","e">>, <<"-","f">>,
                 <<"-","-","d","e","l","e","t","e">>>> @@
           <<"p","u","l","l">> :>
               <<<<"-","-","r","e","b","a","s","e">>,
                 <<"-","-","f","f","-","o","n","l","y">>,
                 <<"-","-","n","o","-","f","f">>>> @@
           <<"s","t","a","t","u","s">> :>
               <<<<"-","s">>, <<"-","-","s","h","o","r","t">>, <<"-","b">>,
                 <<"-","-","b","r","a","n","c","h">>,
                 <<"-","-","p","o","r","c","e","l","a","i","n">>>> @@
           <<"c","h","e","c","k","o","u","t">> :>
               <<<<"-","b">>, <<"-","-","b","r","a","n","c","h">>,
                 <<"-","f">>, <<"-","-","f","o","r","c","e">>,
                 <<"-","-","t","r","a","c","k">>>> @@
           <<"b","r","a","n","c","h">> :>
               <<<<"-","d">>, <<"-","-","d","e","l","e","t","e">>,
                 <<"-","m">>, <<"-","-","m","o","v","e">>, <<"-","r">>,
                 <<"-","-","r","e","m","o","t","e">>>> @@
           <<"l","o","g">> :>
               <<<<"-","-","o","n","e","l","i","n","e">>,
                 <<"-","-","g","r","a","p","h">>,
                 <<"-","-","d","e","c","o","r","a","t","e">>, <<"-","n">>,
                 <<"-","-","m","a","x","-","c","o","u","n","t">>>> @@
           <<"d","i","f","f">> :>
               <<<<"-","-","c","a","c","h","e","d">>,
                 <<"-","-","s","t","a","g","e","d">>, <<"-","w">>,
                 <<"-","-","i","g","n","o","r","e","-","a","l","l","-","s","p","a","c","e">>>>] @@
    <<"d","o","c","k","e","r">> :>
      [subcommands |->
           <<<<"r","u","n">>, <<"b","u","i","l","d">>, <<"p","u","l","l">>,
             <<"p","u","s","h">>, <<"e","x","e","c">>, <<"p","s">>,
             <<"i","m","a","g","e","s">>, <<"l","o","g","s">>,
             <<"s","t","o","p">>, <<"r","m">>>>,
       flags |->
           <<"r","u","n">> :>
               <<<<"-","d">>, <<"-","-","d","e","t","a","c","h">>,
                 <<"-","-","r","m">>, <<"-","i","t">>,
                 <<"-","-","i","n","t","e","r","a","c","t","i","v","e">>,
                 <<"-","-","t","t","y">>, <<"-","p">>,
                 <<"-","-","p","u","b","l","i","s","h">>>> @@
           <<"b","u","i","l","d">> :>
               <<<<"-","t">>, <<"-","-","t","a","g">>, <<"-","f">>,
                 <<"-","-","f","i","l","e">>,
                 <<"-","-","n","o","-","c","a","c","h","e">>,
                 <<"-","-","p","u","l","l">>>> @@
           <<"p","u","l","l">> :>
               <<<<"-","a">>, <<"-","-","a","l","l","-","t","a","g","s">>,
                 <<"-","-","p","l","a","t","f","o","r","m">>>> @@
           <<"p","u","s","h">> :>
               <<<<"-","a">>, <<"-","-","a","l","l","-","t","a","g","s">>>> @@
           <<"e","x","e","c">> :>
               <<<<"-","i","t">>,
                 <<"-","-","i","n","t","e","r","a","c","t","i","v","e">>,
                 <<"-","-","t","t","y">>, <<"-","u">>,
                 <<"-","-","u","s","e","r">>>> @@
           <<"p","s">> :>
               <<<<"-","a">>, <<"-","-","a","l","l">>, <<"-","q">>,
                 <<"-","-","q","u","i","e","t">>,
                 <<"-","-","f","o","r","m","a","t">>>> @@
           <<"i","m","a","g","e","s">> :>
               <<<<"-","a">>, <<"-","-","a","l","l">>, <<"-","q">>,
                 <<"-","-","q","u","i","e","t">>,
                 <<"-","-","f","i","l","t","e","r">>>> @@
           <<"l","o","g","s">> :>
               <<<<"-","f">>, <<"-","-","f","o","l","l","o","w">>,
                 <<"-","t">>,
                 <<"-","-","t","i","m","e","s","t","a","m","p","s">>,
                 <<"-","-","t","a","i","l">>>> @@
           <<"s","t","o","p">> :>
               <<<<"-","t">>, <<"-","-","t","i","m","e">>>> @@
           <<"r","m">> :>
               <<<<"-","f">>, <<"-","-","f","o","r","c","e">>, <<"-","v">>,
                 <<"-","-","v","o","l","u","m","e","s">>>>] @@
    <<"l","s">> :>
      [subcommands |->
           <<>>,
       flags |->
           <<>> :>
               <<<<"-","l">>, <<"-","-","l","o","n","g">>, <<"-","a">>,
                 <<"-","-","a","l","l">>, <<"-","h">>,
                 <<"-","-","h","u","m","a","n","-","r","e","a","d","a","b","l","e">>,
                 <<"-","-","c","o","l","o","r">>, <<"-","R">>,
                 <<"-","-","r","e","c","u","r","s","i","v","e">>>>] @@
    <<"c","d">> :>
      [subcommands |->
           <<>>,
       flags |->
           <<>> :>
               <<<<"-">>, <<"-","L">>, <<"-","P">>>>] @@
    <<"c","p">> :>
      [subcommands |->
           <<>>,
       flags |->
           <<>> :>
               <<<<"-","r">>,
                 <<"-","-","r","e","c","u","r","s","i","v","e">>,
                 <<"-","v">>, <<"-","-","v","e","r","b","o","s","e">>,
                 <<"-","f">>, <<"-","-","f","o","r","c","e">>, <<"-","i">>,
                 <<"-","-","i","n","t","e","r","a","c","t","i","v","e">>>>] @@
    <<"m","v">> :>
      [subcommands |->
           <<>>,
       flags |->
           <<>> :>
               <<<<"-","v">>, <<"-","-","v","e","r","b","o","s","e">>,
                 <<"-","f">>, <<"-","-","f","o","r","c","e">>, <<"-","i">>,
                 <<"-","-","i","n","t","e","r","a","c","t","i","v","e">>,
                 <<"-","n">>,
                 <<"-","-","n","o","-","c","l","o","b","b","e","r">>>>] @@
    <<"r","m">> :>
      [subcommands |->
           <<>>,
       flags |->
           <<>> :>
               <<<<"-","r">>,
                 <<"-","-","r","e","c","u","r","s","i","v","e">>,
                 <<"-","f">>, <<"-","-","f","o","r","c","e">>, <<"-","i">>,
                 <<"-","-","i","n","t","e","r","a","c","t","i","v","e">>,
                 <<"-","v">>, <<"-","-","v","e","r","b","o","s","e">>>>]


\* ------------------------------------------------------------------ state
VARIABLES
    line,        \* the line handed to extract_command_context
    cursor_pos,  \* the cursor handed to extract_command_context
    context,     \* the context it returned
    COMMANDS,    \* the command table of core/predictor.py (a mutable dict)
    fs,          \* the backing store's environment: can the cache directory be
                 \* created, can the cache file be read, can it be written
    file,        \* the cache file: [kind, content]
    mgr,         \* "none" before CacheManager.__init__, "ready" after it
    max_size,    \* CacheManager.max_size
    cache_type,  \* "dict", or "list" when json.load returned a JSON array
    cache,       \* CacheManager.cache, in dict order: a sequence of entries
    now,         \* the value time.time() returns
    calls,       \* number of operations called so far
    ret,         \* the last operation: its name, key, result and exception
    disk,        \* the cache file as the completion processes sharing it see
                 \* it: the sequence of chunks written so far
    pc,          \* where each of those processes is in its load and its save
    seen         \* what each of them read from the file when it loaded

engineVars == <<line, cursor_pos, context, COMMANDS>>

cacheVars == <<fs, file, mgr, max_size, cache_type, cache, now, calls, ret>>

ioVars == <<disk, pc, seen>>

vars == <<line, cursor_pos, context, COMMANDS,
          fs, file, mgr, max_size, cache_type, cache, now, calls, ret,
          disk, pc, seen>>

\* ------------------------------------------------------------ bounds (cache)
MaxTime == 2

MaxCalls == 3

MaxMaxSize == 2

\* Iterations after which the flag loop of predict counts as not ending.
MaxLoopSteps == 64

\* -------------------------------------------------------------- cache layer
\* dict operations on a sequence of entries, each carrying its key.
HasKey(c, key) == \E i \in 1..Len(c) : c[i].key = key

IndexOf(c, key) == CHOOSE i \in 1..Len(c) : c[i].key = key

\* c[key] = entry: an existing key keeps its position, a new one goes last.
DictSet(c, entry) ==
    IF HasKey(c, entry.key)
    THEN [c EXCEPT ![IndexOf(c, entry.key)] = entry]
    ELSE Append(c, entry)

\* del c[key]
DictDel(c, key) == LET Other(e) == e.key # key IN SelectSeq(c, Other)

Keys(c) == {c[i].key : i \in 1..Len(c)}

\* Insert e into the sorted sequence s after every element whose last_used
\* is not greater (the sort is stable).
RECURSIVE InsertByLastUsed(_, _)
InsertByLastUsed(s, e) ==
    IF s = <<>> THEN <<e>>
    ELSE IF s[Len(s)].last_used <= e.last_used THEN Append(s, e)
    ELSE Append(InsertByLastUsed(SubSeq(s, 1, Len(s) - 1), e), s[Len(s)])

\* sorted(self.cache.items(), key=lambda x: x[1].get('last_used', 0))
RECURSIVE SortedByLastUsed(_)
SortedByLastUsed(c) ==
    IF c = <<>> THEN <<>>
    ELSE InsertByLastUsed(SortedByLastUsed(SubSeq(c, 1, Len(c) - 1)), c[Len(c)])

\* s[-n:] for n >= 0: the last n items, and the whole of s for n = 0.
LastItems(s, n) ==
    IF n = 0 \/ n >= Len(s) THEN s ELSE SubSeq(s, Len(s) - n + 1, Len(s))

cleanup_cache(c, size) ==
    IF Len(c) > size THEN LastItems(SortedByLastUsed(c), size) ELSE c

\* open(cache_file, 'w') + json.dump; an IOError is swallowed.
save_cache(c) ==
    IF fs.writable THEN [kind |-> "mapping", content |-> c] ELSE file

\* What _load_cache leaves in (cache_type, cache).
load_cache ==
    IF file.kind = "missing" THEN <<"dict", <<>>>>
    ELSE IF ~fs.readable THEN <<"dict", <<>>>>          \* IOError
    ELSE IF file.kind = "garbage" THEN <<"dict", <<>>>> \* JSONDecodeError
    ELSE IF file.kind = "list" THEN <<"list", <<>>>>    \* json.load gives []
    ELSE <<"dict", file.content>>

NoRet == [op |-> "none", key |-> <<>>, found |-> FALSE, value |-> <<>>,
          exc |-> "none"]

Running == mgr = "ready" /\ ret.exc = "none" /\ calls < MaxCalls

Ready == ret.exc = "none" /\ calls < MaxCalls

\* CacheManager.__init__ (mkdir raises when the directory cannot be made).
Construct(size) ==
    /\ mgr = "none"
    /\ ret.exc = "none"
    /\ IF ~fs.dir_ok
       THEN /\ ret' = [NoRet EXCEPT !.op = "init", !.exc = "OSError"]
            /\ UNCHANGED <<mgr, max_size, cache_type, cache>>
       ELSE /\ mgr' = "ready"
            /\ max_size' = size
            /\ cache_type' = load_cache[1]
            /\ cache' = load_cache[2]
            /\ ret' = [NoRet EXCEPT !.op = "init"]
    /\ UNCHANGED <<fs, file, now, calls>>
    /\ UNCHANGED engineVars
    /\ UNCHANGED ioVars

\* The body of CacheManager.get at time t: the cache afterwards, whether the
\* key was found, and the list returned.
\* get that forgets to count the hit.
cache_get_uncounted(c, key, t) ==
    IF HasKey(c, key)
    THEN LET entry == c[IndexOf(c, key)]
         IN  [cache |-> DictSet(c, [entry EXCEPT !.last_used = t]),
              found |-> TRUE,
              value |-> entry.suggestions]
    ELSE [cache |-> c, found |-> FALSE, value |-> <<>>]

\* get that counts the hit but leaves last_used as it was.
cache_get_unstamped(c, key, t) ==
    IF HasKey(c, key)
    THEN LET entry == c[IndexOf(c, key)]
         IN  [cache |-> DictSet(c, [entry EXCEPT
                                        !.hit_count = entry.hit_count + 1]),
              found |-> TRUE,
              value |-> entry.suggestions]
    ELSE [cache |-> c, found |-> FALSE, value |-> <<>>]

cache_get(c, key, t) ==
    IF HasKey(c, key)
    THEN LET entry == c[IndexOf(c, key)]
         IN  [cache |-> DictSet(c, [entry EXCEPT
                                        !.last_used = t,
                                        !.hit_count = entry.hit_count + 1]),
              found |-> TRUE,
              value |-> entry.suggestions]
    ELSE [cache |-> c, found |-> FALSE, value |-> <<>>]

\* The in-memory part of CacheManager.set: created and last_used are two
\* reads of the clock.
cache_set(c, size, key, suggestions, ttl, created, last_used) ==
    cleanup_cache(DictSet(c, [key |-> key, suggestions |-> suggestions,
                              created |-> created, last_used |-> last_used,
                              hit_count |-> 0, ttl |-> ttl]),
                  size)

\* The values a second time.time() can return after a first one returned t.
LaterReads(t) == {t, Min(t + 1, MaxTime)}

get(key) ==
    /\ Running
    /\ calls' = calls + 1
    /\ IF cache_type = "dict"
       THEN LET r == cache_get(cache, key, now) IN
            /\ cache' = r.cache
            /\ ret' = [NoRet EXCEPT !.op = "get", !.key = key,
                                    !.found = r.found, !.value = r.value]
       ELSE /\ cache' = cache
            /\ ret' = [NoRet EXCEPT !.op = "get", !.key = key]
    /\ UNCHANGED <<fs, file, mgr, max_size, cache_type, now>>
    /\ UNCHANGED engineVars
    /\ UNCHANGED ioVars

set(key, suggestions, ttl) ==
    /\ Running
    /\ calls' = calls + 1
    /\ IF cache_type = "list"
       THEN /\ ret' = [NoRet EXCEPT !.op = "set", !.key = key,
                                    !.exc = "TypeError"]
            /\ UNCHANGED <<cache, file, now>>
       ELSE \E later \in LaterReads(now) :
            LET kept == cache_set(cache, max_size, key, suggestions, ttl,
                                  now, later)
            IN  /\ cache' = kept
                /\ file' = save_cache(kept)
                /\ now' = later
                /\ ret' = [NoRet EXCEPT !.op = "set", !.key = key]
    /\ UNCHANGED <<fs, mgr, max_size, cache_type>>
    /\ UNCHANGED engineVars
    /\ UNCHANGED ioVars

invalidate(key) ==
    /\ Running
    /\ calls' = calls + 1
    /\ IF cache_type = "dict" /\ HasKey(cache, key)
       THEN /\ cache' = DictDel(cache, key)
            /\ file' = save_cache(DictDel(cache, key))
       ELSE UNCHANGED <<cache, file>>
    /\ ret' = [NoRet EXCEPT !.op = "invalidate", !.key = key]
    /\ UNCHANGED <<fs, mgr, max_size, cache_type, now>>
    /\ UNCHANGED engineVars
    /\ UNCHANGED ioVars

clear ==
    /\ Running
    /\ calls' = calls + 1
    /\ cache' = <<>>
    /\ cache_type' = "dict"
    /\ file' = save_cache(<<>>)
    /\ ret' = [NoRet EXCEPT !.op = "clear"]
    /\ UNCHANGED <<fs, mgr, max_size, now>>
    /\ UNCHANGED engineVars
    /\ UNCHANGED ioVars

\* The expiry test taking an entry whose age has reached its ttl as expired.
Expired_at_ttl(entry, current_time) ==
    current_time - entry.created >= entry.ttl

Expired(entry, current_time) == current_time - entry.created > entry.ttl

cleanup_expired ==
    /\ Running
    /\ calls' = calls + 1
    /\ IF cache_type = "list"
       THEN /\ ret' = [NoRet EXCEPT !.op = "cleanup_expired",
                                    !.exc = "AttributeError"]
            /\ UNCHANGED <<cache, file>>
       ELSE LET Live(e) == ~Expired(e, now)
                kept    == SelectSeq(cache, Live)
            IN  /\ cache' = kept
                /\ file' = IF kept # cache THEN save_cache(kept) ELSE file
                /\ ret' = [NoRet EXCEPT !.op = "cleanup_expired"]
    /\ UNCHANGED <<fs, mgr, max_size, cache_type, now>>
    /\ UNCHANGED engineVars
    /\ UNCHANGED ioVars

\* Time passes between two calls.
Tick ==
    /\ now < MaxTime
    /\ now' = now + 1
    /\ UNCHANGED <<fs, file, mgr, max_size, cache_type, cache, calls, ret>>
    /\ UNCHANGED engineVars
    /\ UNCHANGED ioVars

\* ------------------------------------------- the cache file, when shared
\* Several completion processes (separate OS processes) load and save the
\* same cache file.  A document is written in two chunks: open(.., 'w')
\* truncates the file, json.dump writes, the buffer is flushed in between
\* and on close.
NumProcs == 2

Procs == 1..NumProcs

\* The complete document writer w saves; writer 0 is an earlier run.
Doc(w) == << <<w, 1>>, <<w, 2>> >>

\* Bytes no writer wrote: the gap a write past the end of the file leaves.
Hole == <<0, 0>>

\* write(chunk) at file offset off (0-based, in chunks).
WriteAt(d, off, chunk) ==
    IF off < Len(d) THEN [d EXCEPT ![off + 1] = chunk]
    ELSE d \o [i \in 1..(off - Len(d)) |-> Hole] \o <<chunk>>

NoProcs ==
    /\ disk = Doc(0)
    /\ pc = [p \in Procs |-> "start"]
    /\ seen = [p \in Procs |-> <<>>]

\* _load_cache: the file exists, open and read it whole.
LoadCache(p) ==
    /\ pc[p] = "start"
    /\ seen' = [seen EXCEPT ![p] = disk]
    /\ pc' = [pc EXCEPT ![p] = "loaded"]
    /\ UNCHANGED disk
    /\ UNCHANGED <<engineVars, cacheVars>>

\* The process found its key in the cache: get saves nothing.
FinishOnHit(p) ==
    /\ pc[p] = "loaded"
    /\ pc' = [pc EXCEPT ![p] = "done"]
    /\ UNCHANGED <<disk, seen>>
    /\ UNCHANGED <<engineVars, cacheVars>>

\* _save_cache, open(self.cache_file, 'w'): the file is truncated.
SaveOpen(p) ==
    /\ pc[p] = "loaded"
    /\ disk' = <<>>
    /\ pc' = [pc EXCEPT ![p] = "opened"]
    /\ UNCHANGED seen
    /\ UNCHANGED <<engineVars, cacheVars>>

\* _save_cache, json.dump: the first chunk goes to offset 0.
SaveWriteFirst(p) ==
    /\ pc[p] = "opened"
    /\ disk' = WriteAt(disk, 0, <<p, 1>>)
    /\ pc' = [pc EXCEPT ![p] = "half"]
    /\ UNCHANGED seen
    /\ UNCHANGED <<engineVars, cacheVars>>

\* _save_cache, the rest of the document and the close.
SaveWriteRest(p) ==
    /\ pc[p] = "half"
    /\ disk' = WriteAt(disk, 1, <<p, 2>>)
    /\ pc' = [pc EXCEPT ![p] = "done"]
    /\ UNCHANGED seen
    /\ UNCHANGED <<engineVars, cacheVars>>

\* ------------------------------------------------- cache layer, stand-alone
\* Keys and suggestion lists the stand-alone cache is driven with.
CacheKeys == {<<"l","s","|">>, <<"g","i","t","|">>, <<"|">>}

CacheSuggestions == {<<>>, << <<"-","a">>, <<"-","l">> >>}

\* Times to live a put is called with (in clock ticks).
TTLs == {0, 1}

GoodFs == [dir_ok |-> TRUE, readable |-> TRUE, writable |-> TRUE]

MissingFile == [kind |-> "missing", content |-> <<>>]

InitCache ==
    /\ line = <<>>
    /\ cursor_pos = 0
    /\ context = EmptyContext
    /\ COMMANDS = DeclaredCommands
    /\ fs = GoodFs
    /\ file = MissingFile
    /\ mgr = "none"
    /\ max_size = 0
    /\ cache_type = "dict"
    /\ cache = <<>>
    /\ now = 0
    /\ calls = 0
    /\ ret = NoRet
    /\ NoProcs

NextCache ==
    \/ \E size \in 0..MaxMaxSize : Construct(size)
    \/ \E key \in CacheKeys : get(key)
    \/ \E key \in CacheKeys, s \in CacheSuggestions, ttl \in TTLs :
            set(key, s, ttl)
    \/ \E key \in CacheKeys : invalidate(key)
    \/ clear
    \/ cleanup_expired
    \/ Tick

SpecCache == InitCache /\ [][NextCache]_vars

\* The cache driven with one suggestion list: every operation, fewer puts.
GetSuggestions == << <<"-","a">>, <<"-","l">> >>

NextGet ==
    \/ \E size \in 0..MaxMaxSize : Construct(size)
    \/ \E key \in CacheKeys : get(key)
    \/ \E key \in CacheKeys, ttl \in TTLs : set(key, GetSuggestions, ttl)
    \/ \E key \in CacheKeys : invalidate(key)
    \/ clear
    \/ cleanup_expired
    \/ Tick

SpecGet == InitCache /\ [][NextGet]_vars

\* ------------------------------------------- the cache over several runs
\* The process ends and another one starts: what is in memory is gone, the
\* cache file stays, and the next manager loads it, with a maximum of its own.
Restart ==
    /\ mgr = "ready"
    /\ ret.exc = "none"
    /\ mgr' = "none"
    /\ max_size' = 0
    /\ cache_type' = "dict"
    /\ cache' = <<>>
    /\ ret' = NoRet
    /\ UNCHANGED <<fs, file, now, calls>>
    /\ UNCHANGED engineVars
    /\ UNCHANGED ioVars

\* The keys the runs put and get, and the time to live they put with.
RunKeys == {<<"l","s","|">>, <<"g","i","t","|">>}

RunTTL == 1

NextRuns ==
    \/ \E size \in 1..MaxMaxSize : Construct(size)
    \/ \E key \in RunKeys : get(key)
    \/ \E key \in RunKeys, s \in CacheSuggestions : set(key, s, RunTTL)
    \/ Tick
    \/ Restart

SpecRuns == InitCache /\ [][NextRuns]_vars

\* ------------------------------------------------------- prediction engine
DefaultMaxSize == 1000

DefaultTTL == 3600

\* sep.join(parts)
RECURSIVE Join(_, _)
Join(parts, sep) ==
    IF parts = <<>> THEN <<>>
    ELSE IF Len(parts) = 1 THEN parts[1]
    ELSE parts[1] \o sep \o Join(Tail(parts), sep)

\* x or ''
OrEmpty(x) == IF x = None THEN <<>> ELSE x

create_cache_key(ctx) ==
    Join(<<OrEmpty(ctx.command), OrEmpty(ctx.subcommand)>> \o ctx.args, <<"|">>)

filter_suggestions(suggestions, current_word) ==
    IF current_word = <<>> THEN suggestions
    ELSE LET Matches(x) == StartsWith(Lower(x), Lower(current_word))
         IN  SelectSeq(suggestions, Matches)

rank_suggestions(suggestions, ctx) ==
    IF suggestions = <<>> THEN <<>>
    ELSE LET current_word == Lower(ctx.current_word)
             Exact(x)  == Lower(x) = current_word
             Prefix(x) == Lower(x) # current_word
                          /\ StartsWith(Lower(x), current_word)
             Other(x)  == Lower(x) # current_word
                          /\ ~StartsWith(Lower(x), current_word)
         IN  SelectSeq(suggestions, Exact) \o SelectSeq(suggestions, Prefix)
                 \o SelectSeq(suggestions, Other)

\* The lookup by prefix instead of by the exact key: the list of a key the
\* word starts with.
GetOrEmpty_prefix(d, key) ==
    IF \E k \in DOMAIN d : StartsWith(key, k)
    THEN d[CHOOSE k \in DOMAIN d : StartsWith(key, k)]
    ELSE <<>>

\* d.get(key, [])
GetOrEmpty(d, key) == IF key \in DOMAIN d THEN d[key] ELSE <<>>

\* for matching_subcmd in suggestions: suggestions.extend(flags.get(...)):
\* the loop runs over the list it extends, i is the 1-based position.  It
\* ends when i passes the end of the list; a loop still running after
\* MaxLoopSteps iterations is reported as not finished.
RECURSIVE ExtendLoop(_, _, _, _)
ExtendLoop(suggestions, i, flags, steps) ==
    IF i > Len(suggestions)
    THEN [finished |-> TRUE, suggestions |-> suggestions]
    ELSE IF steps >= MaxLoopSteps
    THEN [finished |-> FALSE, suggestions |-> suggestions]
    ELSE ExtendLoop(suggestions \o GetOrEmpty(flags, suggestions[i]),
                    i + 1, flags, steps + 1)

ExtendWithFlags(suggestions, i, flags) == ExtendLoop(suggestions, i, flags, 0)

\* Lines 94-124 of predict_rule_based: the candidate list before filtering
\* and the command table afterwards.  "suggestions = cmd_data.get(...)" and
\* "suggestions = ...get(subcmd, [])" bind the table's own list, so the
\* extend that follows changes the table; a list comprehension and the
\* default [] are fresh lists.  hangs: the flag loop does not end, and
\* predict never returns.
RawSuggestions(cmds, ctx) ==
    LET cmd    == ctx.command
        subcmd == ctx.subcommand
    IN  IF cmd = None
        THEN [suggestions |-> CommandNames, commands |-> cmds, hangs |-> FALSE]
        ELSE IF cmd \notin DOMAIN cmds
        THEN [suggestions |-> <<>>, commands |-> cmds, hangs |-> FALSE]
        ELSE LET cmd_data == cmds[cmd]
                 global   == GetOrEmpty(cmd_data.flags, <<>>)
             IN  IF subcmd = None
                 THEN LET extended == cmd_data.subcommands \o global
                      IN  [suggestions |-> extended,
                           commands |->
                               [cmds EXCEPT ![cmd].subcommands = extended],
                           hangs |-> FALSE]
                 ELSE LET Match(x) == StartsWith(x, subcmd)
                          matching_subcommands ==
                              SelectSeq(cmd_data.subcommands, Match)
                      IN  IF matching_subcommands # <<>>
                          THEN LET loop == ExtendWithFlags(matching_subcommands,
                                                           1, cmd_data.flags)
                               IN  [suggestions |-> loop.suggestions \o global,
                                    commands |-> cmds,
                                    hangs |-> ~loop.finished]
                          ELSE IF subcmd \in DOMAIN cmd_data.flags
                          THEN LET extended == cmd_data.flags[subcmd] \o global
                               IN  [suggestions |-> extended,
                                    commands |->
                                     [cmds EXCEPT ![cmd].flags[subcmd] = extended],
                                    hangs |-> FALSE]
                          ELSE [suggestions |-> global, commands |-> cmds,
                                hangs |-> FALSE]

\* Lines 126-131: filter by the current word, then rank.
FilterAndRank(suggestions, ctx) ==
    rank_suggestions(
        IF ctx.current_word # <<>>
        THEN filter_suggestions(suggestions, ctx.current_word)
        ELSE suggestions,
        ctx)

\* predict_rule_based with a put after the lookup on a cache hit as well.
predict_rule_based_restoring(ctx) ==
    LET cache_key == create_cache_key(ctx)
        first     == mgr = "none"
        ctype     == IF first THEN load_cache[1] ELSE cache_type
        c0        == IF first THEN load_cache[2] ELSE cache
        size      == IF first THEN DefaultMaxSize ELSE max_size
        cached    == IF ctype = "dict" THEN cache_get(c0, cache_key, now)
                     ELSE [cache |-> c0, found |-> FALSE, value |-> <<>>]
        raw       == RawSuggestions(COMMANDS, ctx)
        suggestions == FilterAndRank(raw.suggestions, ctx)
    IN  IF first /\ ~fs.dir_ok
        THEN /\ ret' = [NoRet EXCEPT !.op = "predict", !.key = cache_key,
                                     !.exc = "OSError"]
             /\ UNCHANGED <<COMMANDS, mgr, max_size, cache_type, cache,
                            file, now>>
        ELSE /\ mgr' = "ready"
             /\ max_size' = size
             /\ cache_type' = ctype
             /\ IF cached.found
                THEN \E later \in LaterReads(now) :
                     LET kept == cache_set(cached.cache, size, cache_key,
                                     cached.value, DefaultTTL, now, later)
                     IN  /\ cache' = kept
                         /\ file' = save_cache(kept)
                         /\ now' = later
                         /\ ret' = [NoRet EXCEPT !.op = "predict",
                                        !.key = cache_key, !.found = TRUE,
                                        !.value = cached.value]
                         /\ UNCHANGED COMMANDS
                ELSE IF raw.hangs
                THEN /\ cache' = c0
                     /\ ret' = [NoRet EXCEPT !.op = "predict",
                                    !.key = cache_key, !.exc = "hang"]
                     /\ UNCHANGED <<COMMANDS, file, now>>
                ELSE /\ COMMANDS' = raw.commands
                     /\ IF ctype = "list"
                        THEN /\ cache' = c0
                             /\ ret' = [NoRet EXCEPT !.op = "predict",
                                            !.key = cache_key,
                                            !.exc = "TypeError"]
                             /\ UNCHANGED <<file, now>>
                        ELSE \E later \in LaterReads(now) :
                             LET kept == cache_set(c0, size, cache_key,
                                             suggestions, DefaultTTL, now, later)
                             IN  /\ cache' = kept
                                 /\ file' = save_cache(kept)
                                 /\ now' = later
                                 /\ ret' = [NoRet EXCEPT !.op = "predict",
                                                !.key = cache_key,
                                                !.value = suggestions]

\* predict_rule_based on the process-wide cache manager, which
\* get_cache_manager() constructs with its defaults on first use.
predict_rule_based(ctx) ==
    LET cache_key == create_cache_key(ctx)
        first     == mgr = "none"
        ctype     == IF first THEN load_cache[1] ELSE cache_type
        c0        == IF first THEN load_cache[2] ELSE cache
        size      == IF first THEN DefaultMaxSize ELSE max_size
        cached    == IF ctype = "dict" THEN cache_get(c0, cache_key, now)
                     ELSE [cache |-> c0, found |-> FALSE, value |-> <<>>]
        raw       == RawSuggestions(COMMANDS, ctx)
        suggestions == FilterAndRank(raw.suggestions, ctx)
    IN  IF first /\ ~fs.dir_ok
        THEN /\ ret' = [NoRet EXCEPT !.op = "predict", !.key = cache_key,
                                     !.exc = "OSError"]
             /\ UNCHANGED <<COMMANDS, mgr, max_size, cache_type, cache,
                            file, now>>
        ELSE /\ mgr' = "ready"
             /\ max_size' = size
             /\ cache_type' = ctype
             /\ IF cached.found
                THEN /\ cache' = cached.cache
                     /\ ret' = [NoRet EXCEPT !.op = "predict",
                                    !.key = cache_key, !.found = TRUE,
                                    !.value = cached.value]
                     /\ UNCHANGED <<COMMANDS, file, now>>
                ELSE IF raw.hangs
                THEN /\ cache' = c0
                     /\ ret' = [NoRet EXCEPT !.op = "predict",
                                    !.key = cache_key, !.exc = "hang"]
                     /\ UNCHANGED <<COMMANDS, file, now>>
                ELSE /\ COMMANDS' = raw.commands
                     /\ IF ctype = "list"
                        THEN /\ cache' = c0
                             /\ ret' = [NoRet EXCEPT !.op = "predict",
                                            !.key = cache_key,
                                            !.exc = "TypeError"]
                             /\ UNCHANGED <<file, now>>
                        ELSE \E later \in LaterReads(now) :
                             LET kept == cache_set(c0, size, cache_key,
                                             suggestions, DefaultTTL, now, later)
                             IN  /\ cache' = kept
                                 /\ file' = save_cache(kept)
                                 /\ now' = later
                                 /\ ret' = [NoRet EXCEPT !.op = "predict",
                                                !.key = cache_key,
                                                !.value = suggestions]

predict_with_context(cli_line, cursor) ==
    /\ Ready
    /\ calls' = calls + 1
    /\ line' = cli_line
    /\ cursor_pos' = cursor
    /\ LET ctx == extract_command_context(cli_line, cursor) IN
       /\ context' = ctx
       /\ IF ctx.raised
          THEN /\ ret' = [NoRet EXCEPT !.op = "predict", !.exc = "IndexError"]
               /\ UNCHANGED <<COMMANDS, mgr, max_size, cache_type, cache,
                              file, now>>
          ELSE predict_rule_based(ctx)
    /\ UNCHANGED fs
    /\ UNCHANGED ioVars

\* --------------------------------------------------- the completion process
\* The command lines the engine is driven with: (line, cursor) pairs.
PredictInputs ==
    {<< <<>>, 0 >>,
     << <<"x">>, 0 >>,
     << <<"l","s">>, 2 >>,
     << <<"l","s"," ","-","a">>, 4 >>,
     << <<"l","s"," ","-","l">>, 4 >>,
     << <<"g","i","t"," ","c","o","m","m">>, 8 >>,
     << <<"f","o","o">>, 4 >>}

PredictKeys ==
    {create_cache_key(extract_command_context(in[1], in[2])) :
        in \in {i \in PredictInputs : i[2] <= Len(i[1])}}

Init ==
    /\ line = <<>>
    /\ cursor_pos = 0
    /\ context = EmptyContext
    /\ COMMANDS = DeclaredCommands
    /\ fs = GoodFs
    /\ file = MissingFile
    /\ mgr = "none"
    /\ max_size = 0
    /\ cache_type = "dict"
    /\ cache = <<>>
    /\ now = 0
    /\ calls = 0
    /\ ret = NoRet
    /\ NoProcs

Next ==
    \/ \E in \in PredictInputs : predict_with_context(in[1], in[2])
    \/ \E key \in PredictKeys : invalidate(key)
    \/ clear
    \/ Tick

Spec == Init /\ [][Next]_vars

\* ------------------------------------------- context extraction, stand-alone
CtxChars == {"a", " ", "'", "\""}

RECURSIVE LinesOfLen(_)
LinesOfLen(n) ==
    IF n = 0 THEN {<<>>}
    ELSE {Append(l, c) : l \in LinesOfLen(n - 1), c \in CtxChars}

CtxLines == UNION {LinesOfLen(n) : n \in 0..MaxLineLen}

CtxCursors == (-1)..(MaxLineLen + 1)

\* A command line of the test suite, with the cursor inside its last word.
CtxScenarios == {<< <<"g","i","t"," ","c","o","m","m","i","t"," ","-","m">>, 12 >>}

InitCtx ==
    /\ \/ line \in CtxLines /\ cursor_pos \in CtxCursors
       \/ \E in \in CtxScenarios : line = in[1] /\ cursor_pos = in[2]
    /\ context = EmptyContext
    /\ COMMANDS = DeclaredCommands
    /\ fs = GoodFs
    /\ file = MissingFile
    /\ mgr = "none"
    /\ max_size = 0
    /\ cache_type = "dict"
    /\ cache = <<>>
    /\ now = 0
    /\ calls = 0
    /\ ret = NoRet
    /\ NoProcs

ExtractContext ==
    /\ calls = 0
    /\ calls' = 1
    /\ context' = extract_command_context(line, cursor_pos)
    /\ UNCHANGED <<line, cursor_pos, COMMANDS>>
    /\ UNCHANGED <<fs, file, mgr, max_size, cache_type, cache, now, ret>>
    /\ UNCHANGED ioVars

NextCtx == ExtractContext

SpecCtx == InitCtx /\ [][NextCtx]_vars

\* ------------------------------------- key derivation, stand-alone
\* Lines that may hold the character create_cache_key joins with.
KeyChars == {"a", " ", "|"}

RECURSIVE LinesOver(_, _)
LinesOver(chars, n) ==
    IF n = 0 THEN {<<>>}
    ELSE {Append(l, c) : l \in LinesOver(chars, n - 1), c \in chars}

KeyLines == UNION {LinesOver(KeyChars, n) : n \in 0..MaxLineLen}

InitKey ==
    /\ line \in KeyLines
    /\ cursor_pos \in CtxCursors
    /\ context = EmptyContext
    /\ COMMANDS = DeclaredCommands
    /\ fs = GoodFs
    /\ file = MissingFile
    /\ mgr = "none"
    /\ max_size = 0
    /\ cache_type = "dict"
    /\ cache = <<>>
    /\ now = 0
    /\ calls = 0
    /\ ret = NoRet
    /\ NoProcs

SpecKey == InitKey /\ [][NextCtx]_vars

\* ---------------------------------------------- the shared file, stand-alone
InitFile ==
    /\ line = <<>>
    /\ cursor_pos = 0
    /\ context = EmptyContext
    /\ COMMANDS = DeclaredCommands
    /\ fs = GoodFs
    /\ file = MissingFile
    /\ mgr = "none"
    /\ max_size = 0
    /\ cache_type = "dict"
    /\ cache = <<>>
    /\ now = 0
    /\ calls = 0
    /\ ret = NoRet
    /\ NoProcs

NextFile ==
    \E p \in Procs :
        \/ LoadCache(p)
        \/ FinishOnHit(p)
        \/ SaveOpen(p)
        \/ SaveWriteFirst(p)
        \/ SaveWriteRest(p)

SpecFile == InitFile /\ [][NextFile]_vars

\* ------------------------------------- the engine on an unreliable store
\* What the cache file can hold when a process starts: nothing, text that is
\* not JSON, a JSON array, or a mapping an earlier run saved.
StoredEntry ==
    [key |-> <<"l","s","|">>, suggestions |-> << <<"-","l">> >>,
     created |-> 0, last_used |-> 0, hit_count |-> 0, ttl |-> DefaultTTL]

StoreFiles ==
    {MissingFile,
     [kind |-> "garbage", content |-> <<>>],
     [kind |-> "list", content |-> <<>>],
     [kind |-> "mapping", content |-> <<StoredEntry>>]}

\* A directory that cannot be made holds no file; whether a file that is not
\* there can be read is no question.
StoreConsistent(f, content) ==
    /\ ~f.dir_ok => (content = MissingFile /\ ~f.writable)
    /\ content = MissingFile => ~f.readable

StoreInputs ==
    {<< <<>>, 0 >>,
     << <<"l","s">>, 2 >>,
     << <<"l","s"," ","-","a">>, 4 >>}

InitStore ==
    /\ line = <<>>
    /\ cursor_pos = 0
    /\ context = EmptyContext
    /\ COMMANDS = DeclaredCommands
    /\ fs \in [dir_ok : BOOLEAN, readable : BOOLEAN, writable : BOOLEAN]
    /\ file \in StoreFiles
    /\ StoreConsistent(fs, file)
    /\ mgr = "none"
    /\ max_size = 0
    /\ cache_type = "dict"
    /\ cache = <<>>
    /\ now = 0
    /\ calls = 0
    /\ ret = NoRet
    /\ NoProcs

NextStore ==
    \/ \E in \in StoreInputs : predict_with_context(in[1], in[2])
    \/ Tick

SpecStore == InitStore /\ [][NextStore]_vars

\* ------------------------------------------- the engine on git command lines
\* The git scenarios of the test suite, and "git commit" with the cursor
\* inside the word (its line prefix is "git comm").
GitInputs ==
    {<< <<"g","i","t">>, 3 >>,
     << <<"g","i","t"," ","c","o","m","m">>, 8 >>,
     << <<"g","i","t"," ","c","o","m","m","i","t">>, 8 >>,
     << <<"g","i","t"," ","c","o","m","m","i","t"," ","-">>, 12 >>}

NextGit ==
    \/ \E in \in GitInputs : predict_with_context(in[1], in[2])
    \/ clear
    \/ Tick

SpecGit == Init /\ [][NextGit]_vars

\* --------------------------------------- the engine on lines with a subcommand
\* Lines without a subcommand, whose candidates are the table's own list, and
\* lines with a subcommand prefix, which run the flag loop.
LoopInputs ==
    {<< <<"l","s">>, 2 >>,
     << <<"l","s"," ","-","a">>, 4 >>,
     << <<"c","d">>, 2 >>,
     << <<"c","d"," ","-">>, 4 >>,
     << <<"g","i","t"," ","c","o","m","m">>, 8 >>,
     << <<"d","o","c","k","e","r"," ","p">>, 8 >>}

NextLoop ==
    \/ \E in \in LoopInputs : predict_with_context(in[1], in[2])
    \/ \E in \in LoopInputs :
           invalidate(create_cache_key(extract_command_context(in[1], in[2])))
    \/ clear

SpecLoop == Init /\ [][NextLoop]_vars

\* ================================================================== claims
\* Helpers of the claims' formulas.
EntryFor(c, key) == c[IndexOf(c, key)]

\* The step just taken is a call of operation op.
Called(op) == calls' = calls + 1 /\ ret'.op = op

\* x starts with w, ignoring case.
StartsWithNoCase(x, w) == StartsWith(Lower(x), Lower(w))

\* ---------------------------------------------------------------------- C1
\* C1 (expiry law): get(key) never returns the suggestions of an entry whose
\* age (now - created) exceeds its ttl; it reports a miss for such a key,
\* whether or not cleanup_expired has run.
C1_ExpiryLaw ==
    [][(Called("get") /\ cache_type = "dict" /\ HasKey(cache, ret'.key)
           /\ Expired(EntryFor(cache, ret'.key), now))
         => ~ret'.found]_vars

\* ---------------------------------------------------------------------- C2
\* C2 (ranking law): with a non-empty current_word, every candidate predict
\* returns starts with current_word ignoring case, and every candidate equal
\* to current_word ignoring case precedes all the others.
C2_RankingLaw ==
    (ret.op = "predict" /\ ret.exc = "none" /\ context.current_word # <<>>)
    => /\ \A i \in 1..Len(ret.value) :
              StartsWithNoCase(ret.value[i], context.current_word)
       /\ \A i, j \in 1..Len(ret.value) :
              (/\ Lower(ret.value[j]) = Lower(context.current_word)
               /\ Lower(ret.value[i]) # Lower(context.current_word)) => j < i

\* ---------------------------------------------------------------------- C3
\* The context of some driven input whose cache key is key.
ContextOfKey(key) ==
    LET in == CHOOSE i \in PredictInputs :
                  /\ i[2] <= Len(i[1])
                  /\ create_cache_key(extract_command_context(i[1], i[2])) = key
    IN  extract_command_context(in[1], in[2])

\* The raw candidate set of a key: what the declared table gives for its
\* command and subcommand, before any filtering.
RawSetOfKey(key) == RawSuggestions(DeclaredCommands, ContextOfKey(key)).suggestions

\* C3: in every reachable state the list stored under a key is the
\* unfiltered, word-agnostic raw candidate set of that key's command,
\* subcommand and args; it does not depend on the current_word of the call
\* that stored it.
C3_CacheHoldsRawSet ==
    \A i \in 1..Len(cache) :
        cache[i].key \in PredictKeys
            => cache[i].suggestions = RawSetOfKey(cache[i].key)

\* ---------------------------------------------------------------------- C4
\* C4 (idempotence): two predict calls in a row with the same line and cursor
\* (hence the same context) return the same ordered list, and the hit counter
\* of the context's cache entry is strictly greater after the second call
\* than after the first.
C4_Idempotence ==
    [][(/\ ret.op = "predict" /\ ret.exc = "none"
        /\ Called("predict") /\ ret'.exc = "none"
        /\ line' = line /\ cursor_pos' = cursor_pos)
         => /\ ret'.value = ret.value
            /\ HasKey(cache, ret.key) /\ HasKey(cache', ret.key)
            /\ EntryFor(cache', ret.key).hit_count
                   > EntryFor(cache, ret.key).hit_count]_vars

\* A second call in a row that filtered by a non-empty word: the cached list
\* is the one the same context stored on the first call.
C4_Witness ==
    /\ calls = 2 /\ ret.op = "predict" /\ ret.found
    /\ context.current_word # <<>>
    /\ ret.value # <<>>
    /\ ret.value = FilterAndRank(RawSetOfKey(ret.key), context)
    /\ EntryFor(cache, ret.key).hit_count = 1

\* ---------------------------------------------------------------------- C5
\* C5 (eviction law): once a put has completed the cache holds at most
\* max_size entries, and the entries it kept are the max_size most recently
\* used of those present after the write: none that was dropped had a later
\* last_used than one that was kept.
C5_EvictionLaw ==
    [][(Called("set") /\ ret'.exc = "none")
         => /\ Len(cache') <= max_size
            /\ Len(cache') = Min(max_size, Cardinality(Keys(cache) \cup {ret'.key}))
            /\ \A d \in Keys(cache) \ Keys(cache'), k \in Keys(cache') :
                   EntryFor(cache, d).last_used <= EntryFor(cache', k).last_used
       ]_vars

\* ---------------------------------------------------------------------- C6
\* C6: the command table is never mutated: after any sequence of predict
\* calls every subcommand list and every flag list equals its declared value.
C6_TableImmutable == COMMANDS = DeclaredCommands

\* ---------------------------------------------------------------------- C7
\* The file content is one complete document, written by one writer.
Complete(d) == \E w \in 0..NumProcs : d = Doc(w)

\* C7: with several processes loading and saving the same cache file, the
\* content any of them reads is a complete document written by one writer,
\* and whenever no save is under way the file in place is such a document.
C7_NoPartialFile ==
    /\ \A p \in Procs : pc[p] # "start" => Complete(seen[p])
    /\ (\A p \in Procs : pc[p] \notin {"opened", "half"}) => Complete(disk)

\* ---------------------------------------------------------------------- C8
\* C8: no cache I/O failure reaches the caller: whatever the state of the
\* backing store (missing, malformed, unreadable, unwritable, directory not
\* creatable) predict returns without an exception, and a prediction that was
\* computed is in the in-memory cache afterwards even when it could not be
\* written to the store.
C8_NoFailurePropagates ==
    /\ ret.exc = "none"
    /\ (ret.op = "predict" /\ ~ret.found)
       => /\ HasKey(cache, ret.key)
          /\ EntryFor(cache, ret.key).suggestions = ret.value

\* ---------------------------------------------------------------------- C9
\* C9 (context invariant, as claimed): for every line and cursor the context
\* returned satisfies word_start <= cursor <= word_end and
\* current_word = line[word_start:word_end].
C9_ContextInvariant ==
    (calls = 1 /\ ~context.raised)
    => /\ context.word_start <= cursor_pos
       /\ cursor_pos <= context.word_end
       /\ context.current_word
              = Slice(line, context.word_start, context.word_end)

\* The cursor stands at the end of the line, right after a character that is
\* not whitespace.
AtEndOfWord == cursor_pos = Len(line) /\ cursor_pos > 0 /\ ~IsSpace(line[cursor_pos])

\* C9 (amended): for every non-empty line and every cursor inside it
\* (0 <= cursor <= len(line)) a context is returned with
\* word_start <= cursor <= word_end, and current_word is
\* line[word_start:word_end] unless the cursor stands at the end of the line
\* right after a non-whitespace character, where current_word is empty; for
\* an empty line or a negative cursor current_word is line[0:0] and
\* word_start = word_end = 0.
C9_ContextInvariantAmended ==
    /\ (calls = 1 /\ line # <<>> /\ 0 <= cursor_pos /\ cursor_pos <= Len(line))
       => /\ ~context.raised
          /\ context.word_start <= cursor_pos
          /\ cursor_pos <= context.word_end
          /\ context.current_word
                 = IF AtEndOfWord THEN <<>>
                   ELSE Slice(line, context.word_start, context.word_end)
    /\ (calls = 1 /\ (line = <<>> \/ cursor_pos < 0))
       => /\ ~context.raised
          /\ context.word_start = 0 /\ context.word_end = 0
          /\ context.current_word = Slice(line, 0, 0)

\* The cursor strictly inside a word, and the word is the current word.
C9_Witness ==
    /\ calls = 1
    /\ ~context.raised
    /\ context.word_start < cursor_pos /\ cursor_pos < context.word_end
    /\ context.current_word # <<>>
    /\ context.current_word = Slice(line, context.word_start, context.word_end)

\* --------------------------------------------------------------------- C10
\* C10: extract_context never fails: for every line and every integer cursor
\* (negative, inside the line, at its end or beyond it) it returns a context;
\* for cursor < 0 or an empty line that context has no command, no
\* subcommand, no args, an empty current_word and word_start = word_end = 0.
C10_NeverFails ==
    calls = 1
    => /\ ~context.raised
       /\ (cursor_pos < 0 \/ line = <<>>)
          => /\ context.command = None /\ context.subcommand = None
             /\ context.args = <<>> /\ context.current_word = <<>>
             /\ context.word_start = 0 /\ context.word_end = 0

\* --------------------------------------------------------------------- C11
\* C11: whenever the context has no command and an empty current_word (such
\* as line "" with cursor 0), predict returns all the command names of the
\* table, unfiltered and in declared order, whatever predict calls were made
\* before.
C11_AllCommandNames ==
    (/\ ret.op = "predict" /\ ret.exc = "none"
     /\ context.command = None /\ context.current_word = <<>>)
    => ret.value = CommandNames

\* --------------------------------------------------------------------- C12
\* x is an element of the list l.
InList(x, l) == \E i \in 1..Len(l) : l[i] = x

\* predict has returned for this line and cursor.
PredictedFor(l, c) ==
    ret.op = "predict" /\ ret.exc = "none" /\ line = l /\ cursor_pos = c

\* C12 (as claimed): with the cursor at the end of the line right after a
\* partially typed word w, current_word is w and the prediction is filtered
\* by w: for "git comm" with cursor 8 current_word = "comm",
\* subcommand = "comm" and the output is exactly ["commit"]; for
\* "git commit -" with cursor 12 current_word = "-", the output includes
\* "-m", "--message" and "--amend" and every element starts with "-".
C12_EndOfLineFilter ==
    /\ (ret.op = "predict" /\ ret.exc = "none" /\ AtEndOfWord)
       => /\ context.current_word
                 = Slice(line, context.word_start, context.word_end)
          /\ \A i \in 1..Len(ret.value) :
                 StartsWithNoCase(ret.value[i], context.current_word)
    /\ PredictedFor(<<"g","i","t"," ","c","o","m","m">>, 8)
       => /\ context.current_word = <<"c","o","m","m">>
          /\ context.subcommand = <<"c","o","m","m">>
          /\ ret.value = << <<"c","o","m","m","i","t">> >>
    /\ PredictedFor(<<"g","i","t"," ","c","o","m","m","i","t"," ","-">>, 12)
       => /\ context.current_word = <<"-">>
          /\ InList(<<"-","m">>, ret.value)
          /\ InList(<<"-","-","m","e","s","s","a","g","e">>, ret.value)
          /\ InList(<<"-","-","a","m","e","n","d">>, ret.value)
          /\ \A i \in 1..Len(ret.value) : StartsWith(ret.value[i], <<"-">>)

\* What a miss returns for subcommand "comm" or "commit": the name, then the
\* flags of commit.
CommitAndFlags ==
    <<<<"c","o","m","m","i","t">>, <<"-","m">>, <<"-","-","m","e","s","s","a","g","e">>, <<"-","-","a","m","e","n","d">>, <<"-","-","s","i","g","n","o","f","f">>, <<"-","a">>, <<"-","-","a","l","l">>>>

\* C12 (amended): with the cursor at the end of the line right after a word,
\* current_word is empty (the word counts as complete) and on a cache miss
\* the prediction is not filtered by the word: for "git comm" with cursor 8
\* current_word = "", subcommand = "comm" and a miss returns commit followed
\* by the six flags of commit; for "git commit -" with cursor 12
\* current_word = "", subcommand = "commit", args = ["-"] and a miss returns
\* the same list, which includes "-m", "--message" and "--amend".  On a hit
\* the list stored under the key is returned as it is.
C12_EndOfLineComplete ==
    /\ (ret.op = "predict" /\ ret.exc = "none" /\ AtEndOfWord)
       => context.current_word = <<>>
    /\ PredictedFor(<<"g","i","t"," ","c","o","m","m">>, 8)
       => /\ context.subcommand = <<"c","o","m","m">>
          /\ ~ret.found => ret.value = CommitAndFlags
    /\ PredictedFor(<<"g","i","t"," ","c","o","m","m","i","t"," ","-">>, 12)
       => /\ context.subcommand = <<"c","o","m","m","i","t">>
          /\ context.args = << <<"-">> >>
          /\ ~ret.found => /\ ret.value = CommitAndFlags
                           /\ InList(<<"-","m">>, ret.value)
                           /\ InList(<<"-","-","m","e","s","s","a","g","e">>, ret.value)
                           /\ InList(<<"-","-","a","m","e","n","d">>, ret.value)
    /\ (ret.op = "predict" /\ ret.exc = "none" /\ ret.found)
       => ret.value = EntryFor(cache, ret.key).suggestions

\* "git comm" with cursor 8 missed the cache although other keys are cached.
C12_Witness ==
    /\ PredictedFor(<<"g","i","t"," ","c","o","m","m">>, 8)
    /\ ~ret.found
    /\ calls > 1
    /\ context.current_word = <<>>
    /\ ret.value = CommitAndFlags

\* --------------------------------------------------------------------- C13
\* The part of a context the cache key is derived from.
KeyParts(ctx) == <<ctx.command, ctx.subcommand, ctx.args>>

\* C13: the separator of the cache key appears in no token that reaches key
\* derivation, and the key is injective: two contexts whose
\* (command, subcommand, args) differ never have the same cache key.
C13_KeyInjective ==
    (calls = 1 /\ ~context.raised)
    => /\ \A i \in 1..Len(context.tokens) : ~InList("|", context.tokens[i])
       /\ \A l \in KeyLines : \A c \in 0..Len(l) :
              LET other == extract_command_context(l, c)
              IN  create_cache_key(other) = create_cache_key(context)
                      => KeyParts(other) = KeyParts(context)

\* --------------------------------------------------------------------- C14
\* C14: the cache is persisted after every mutation: when a cache operation
\* that changed an entry has completed (a put, an eviction, an expiry
\* removal, a get hit that refreshed last_used and the hit counter) and the
\* store can be written, the content of the backing store equals the
\* in-memory mapping.
C14_PersistedAfterMutation ==
    [][(/\ calls' = calls + 1 /\ ret'.exc = "none"
        /\ cache' # cache /\ fs.writable)
         => file' = [kind |-> "mapping", content |-> cache']]_vars

\* --------------------------------------------------------------------- C15
QuoteChars == {"\"", "'"}

\* The quote character that is open after the first i characters of p
\* (NoChar when none is).
RECURSIVE OpenQuote(_, _)
OpenQuote(p, i) ==
    IF i = 0 THEN NoChar
    ELSE LET q == OpenQuote(p, i - 1) IN
         IF p[i] \notin QuoteChars THEN q
         ELSE IF q = NoChar THEN p[i]
         ELSE IF p[i] = q THEN NoChar
         ELSE q

\* Character i of p opens or closes a quoted run.
TogglesQuote(p, i) ==
    /\ p[i] \in QuoteChars
    /\ OpenQuote(p, i - 1) \in {NoChar, p[i]}

\* Character i of p is whitespace outside every quoted run.
IsBoundary(p, i) == IsSpace(p[i]) /\ OpenQuote(p, i - 1) = NoChar

\* The position of the last token boundary of p, 0 when it has none.
LastBoundary(p) ==
    IF \E i \in 1..Len(p) : IsBoundary(p, i)
    THEN CHOOSE i \in 1..Len(p) :
             /\ IsBoundary(p, i)
             /\ \A j \in (i + 1)..Len(p) : ~IsBoundary(p, j)
    ELSE 0

\* The characters of p from position i on, without those that open or close
\* a quoted run.
RECURSIVE TypedFrom(_, _)
TypedFrom(p, i) ==
    IF i > Len(p) THEN <<>>
    ELSE IF TogglesQuote(p, i) THEN TypedFrom(p, i + 1)
    ELSE <<p[i]>> \o TypedFrom(p, i + 1)

\* The line prefix the tokenizer is given.
Prefix == Slice(line, 0, cursor_pos)

\* The prefix ends inside a quoted run that is not closed.
InOpenQuote == OpenQuote(Prefix, Len(Prefix)) # NoChar

\* The text typed since the last token boundary.
PartialToken == TypedFrom(Prefix, LastBoundary(Prefix) + 1)

\* C15: for every line prefix that ends inside an unclosed quoted run,
\* tokenize returns without raising, and what it returns is the tokens
\* completed so far followed by the partial token: the text typed since the
\* last token boundary, whitespace inside the open quote kept, provided that
\* text is not empty.
C15_PartialToken ==
    (/\ calls = 1 /\ 0 <= cursor_pos /\ cursor_pos <= Len(line)
     /\ InOpenQuote /\ PartialToken # <<>>)
    => /\ ~context.raised
       /\ context.tokens
              = Append(tokenize_command_line(
                           Slice(Prefix, 0, LastBoundary(Prefix))),
                       PartialToken)

\* A completed token, then an open quote with a blank typed inside it.
C15_Witness ==
    /\ calls = 1 /\ 0 <= cursor_pos /\ cursor_pos <= Len(line)
    /\ InOpenQuote
    /\ Len(context.tokens) = 2
    /\ InList(" ", PartialToken)
    /\ context.tokens[2] = PartialToken

\* --------------------------------------------------------------------- C16
\* predict has returned after a cache miss.
Missed == ret.op = "predict" /\ ret.exc = "none" /\ ~ret.found

\* The global flags the table declares for a command: those under the key "".
DeclaredGlobalFlags(cmd) == GetOrEmpty(DeclaredCommands[cmd].flags, <<>>)

\* C16: on a cache miss with an empty current_word, for a known command and
\* no subcommand, predict returns the declared subcommand list of the command
\* followed by its global flag list, in declared order, repeating no element
\* the table does not repeat.
C16_SubcommandsThenGlobalFlags ==
    (/\ Missed
     /\ context.command \in DOMAIN DeclaredCommands
     /\ context.subcommand = None
     /\ context.current_word = <<>>)
    => ret.value = DeclaredCommands[context.command].subcommands
                       \o DeclaredGlobalFlags(context.command)

\* --------------------------------------------------------------------- C17
\* The declared subcommands of cmd that start with s, in declared order.
DeclaredMatching(cmd, s) ==
    LET Match(x) == StartsWith(x, s)
    IN  SelectSeq(DeclaredCommands[cmd].subcommands, Match)

\* The flags registered for each of the names, concatenated in their order.
RECURSIVE FlagsOfEach(_, _)
FlagsOfEach(names, flags) ==
    IF names = <<>> THEN <<>>
    ELSE GetOrEmpty(flags, Head(names)) \o FlagsOfEach(Tail(names), flags)

\* The raw candidate set as the claim states it, for a known command and a
\* present subcommand.
ClaimedRawSet(ctx) ==
    LET flags    == DeclaredCommands[ctx.command].flags
        matching == DeclaredMatching(ctx.command, ctx.subcommand)
    IN  IF matching # <<>>
        THEN matching \o FlagsOfEach(matching, flags)
                 \o DeclaredGlobalFlags(ctx.command)
        ELSE GetOrEmpty(flags, ctx.subcommand)
                 \o DeclaredGlobalFlags(ctx.command)

\* C17: on a cache miss, for a known command and a present subcommand s, the
\* raw candidate set is: if some declared subcommand starts with s, the
\* matching names in declared order, then the flags registered for each of
\* them in match order, then the global flags; otherwise the flags registered
\* for the literal s, then the global flags.  What predict returns on the
\* miss is that set, filtered by current_word and ranked; with an empty
\* current_word every declared subcommand starting with s is in it.
C17_RawSetWithSubcommand ==
    (/\ Missed
     /\ context.command \in DOMAIN DeclaredCommands
     /\ context.subcommand # None)
    => /\ ret.value = FilterAndRank(ClaimedRawSet(context), context)
       /\ context.current_word = <<>>
          => \A i \in 1..Len(DeclaredCommands[context.command].subcommands) :
                 LET x == DeclaredCommands[context.command].subcommands[i]
                 IN  StartsWith(x, context.subcommand) => InList(x, ret.value)

\* --------------------------------------------------------------------- C18
\* C18: put(key, suggestions, ttl) always leaves the entry of key with the
\* given suggestions, created = last_used = the time of the put, hit counter
\* 0 and the given ttl, whatever entry was there before; what it keeps is
\* persisted, and every other entry it keeps is unchanged.
C18_PutLaw ==
    [][\A key \in CacheKeys, s \in CacheSuggestions, ttl \in TTLs :
          (set(key, s, ttl) /\ ret'.exc = "none")
          => /\ HasKey(cache', key)
             /\ LET e == EntryFor(cache', key)
                IN  /\ e.suggestions = s /\ e.ttl = ttl /\ e.hit_count = 0
                    /\ e.created = e.last_used
                    /\ now <= e.created /\ e.created <= now'
             /\ file' = [kind |-> "mapping", content |-> cache']
             /\ \A k \in Keys(cache') \ {key} :
                    /\ HasKey(cache, k)
                    /\ EntryFor(cache', k) = EntryFor(cache, k)]_vars

\* --------------------------------------------------------------------- C19
\* C19: get(key) on a hit sets last_used of the entry to the current time,
\* adds exactly one to its hit counter, leaves its suggestions, created and
\* ttl as they were and returns the stored suggestions; get of a key that is
\* not present returns absent and leaves the whole cache unchanged; in both
\* cases every other entry is unchanged.
C19_GetLaw ==
    [][Called("get")
         => LET key == ret'.key IN
            IF HasKey(cache, key)
            THEN LET e == EntryFor(cache, key)
                 IN  /\ ret'.found /\ ret'.value = e.suggestions
                     /\ Keys(cache') = Keys(cache)
                     /\ EntryFor(cache', key).last_used = now
                     /\ EntryFor(cache', key).hit_count = e.hit_count + 1
                     /\ EntryFor(cache', key).suggestions = e.suggestions
                     /\ EntryFor(cache', key).created = e.created
                     /\ EntryFor(cache', key).ttl = e.ttl
                     /\ \A k \in Keys(cache) \ {key} :
                            EntryFor(cache', k) = EntryFor(cache, k)
            ELSE ~ret'.found /\ cache' = cache]_vars

\* A hit some time after the put, with another entry in the cache.
C19_Witness ==
    /\ ret.op = "get" /\ ret.found
    /\ Len(cache) = 2
    /\ ret.value # <<>>
    /\ EntryFor(cache, ret.key).hit_count = 1
    /\ EntryFor(cache, ret.key).last_used > EntryFor(cache, ret.key).created

\* --------------------------------------------------------------------- C20
\* C20 (as claimed): every predict call, on a cache hit as on a miss, ends
\* with a put under the cache key of the context, so that after the call the
\* entry is as a put leaves it (hit counter 0, created during the call, the
\* mapping saved) and its recency is that of the call.
C20_AlwaysRestored ==
    [][(Called("predict") /\ ret'.exc = "none")
         => /\ HasKey(cache', ret'.key)
            /\ EntryFor(cache', ret'.key).last_used = now'
            /\ EntryFor(cache', ret'.key).hit_count = 0
            /\ EntryFor(cache', ret'.key).created >= now
            /\ file' = [kind |-> "mapping", content |-> cache']]_vars

\* C20 (amended): a predict call puts under the cache key of the context
\* only on a cache miss: one put of the list it returns, with the default
\* ttl, after the failed lookup.  On a hit no put follows: the lookup adds
\* one to the hit counter, the suggestions, created and ttl of the entry
\* stay and the store is not written.  In both cases the recency (last_used)
\* of the entry is that of the call.
C20_StoredOnMissOnly ==
    [][(Called("predict") /\ ret'.exc = "none")
         => /\ HasKey(cache', ret'.key)
            /\ EntryFor(cache', ret'.key).last_used = now'
            /\ IF ret'.found
               THEN /\ HasKey(cache, ret'.key)
                    /\ EntryFor(cache', ret'.key)
                           = [EntryFor(cache, ret'.key) EXCEPT
                                  !.last_used = now',
                                  !.hit_count =
                                      EntryFor(cache, ret'.key).hit_count + 1]
                    /\ file' = file
                    /\ now' = now
               ELSE /\ EntryFor(cache', ret'.key).suggestions = ret'.value
                    /\ EntryFor(cache', ret'.key).hit_count = 0
                    /\ EntryFor(cache', ret'.key).created = now
                    /\ EntryFor(cache', ret'.key).ttl = DefaultTTL
                    /\ file' = [kind |-> "mapping", content |-> cache']
       ]_vars

\* A hit some time after the miss that stored the entry: the entry keeps its
\* created time while its recency is that of the hit, and the file still
\* holds the entry as the put left it.
C20_Witness ==
    /\ ret.op = "predict" /\ ret.found
    /\ EntryFor(cache, ret.key).hit_count = 1
    /\ EntryFor(cache, ret.key).created < now
    /\ EntryFor(cache, ret.key).last_used = now
    /\ file.kind = "mapping"
    /\ HasKey(file.content, ret.key)
    /\ EntryFor(file.content, ret.key).hit_count = 0

\* --------------------------------------------------------------------- C21
\* C21: when cleanup_expired has completed, no entry whose age
\* (now - created) exceeds its own ttl is left in the cache, every entry that
\* has not expired is still there and unchanged, and the backing store is
\* rewritten only if at least one entry was removed.
C21_CleanupExpiredLaw ==
    [][(Called("cleanup_expired") /\ ret'.exc = "none")
         => /\ \A i \in 1..Len(cache') :
                   ~(now - cache'[i].created > cache'[i].ttl)
            /\ \A i \in 1..Len(cache) :
                   ~(now - cache[i].created > cache[i].ttl)
                       => /\ HasKey(cache', cache[i].key)
                          /\ EntryFor(cache', cache[i].key) = cache[i]
            /\ Keys(cache') \subseteq Keys(cache)
            /\ IF Len(cache') < Len(cache)
               THEN file' = [kind |-> "mapping", content |-> cache']
               ELSE file' = file]_vars

\* The sweep has run with two puts behind it and kept an entry that has
\* aged exactly its ttl; the file holds what was kept.
C21_Witness ==
    /\ ret.op = "cleanup_expired" /\ calls = 3
    /\ max_size = 2
    /\ Len(cache) = 1
    /\ cache[1].ttl = 1 /\ now - cache[1].created = 1
    /\ file = [kind |-> "mapping", content |-> cache]

\* --------------------------------------------------------------------- C22
\* The 0-based indices of the whitespace characters of the line.
SpaceIndices == {i \in 0..(Len(line) - 1) : IsSpace(line[i + 1])}

\* The greatest and the least element of a non-empty set of integers.
Greatest(S) == CHOOSE x \in S : \A y \in S : y <= x

Least(S) == CHOOSE x \in S : \A y \in S : x <= y

\* C22: for a non-empty line and 0 <= cursor <= len(line), word_start is one
\* past the index of the last whitespace character before the cursor (0 if
\* there is none), word_end is the index of the first whitespace character
\* at or after the cursor (len(line) if there is none), and command,
\* subcommand and args come from the tokens of line[:cursor] alone; so with
\* the cursor strictly inside a word current_word is the whole word, the
\* characters after the cursor included: "git commit -m" with cursor 12
\* gives command git, subcommand commit and current_word "-m".
C22_WordBounds ==
    /\ (calls = 1 /\ line # <<>> /\ 0 <= cursor_pos /\ cursor_pos <= Len(line))
       => LET before == {i \in SpaceIndices : i < cursor_pos}
              after  == {i \in SpaceIndices : i >= cursor_pos}
              tokens == tokenize_command_line(Slice(line, 0, cursor_pos))
              start  == IF before = {} THEN 0 ELSE Greatest(before) + 1
              end    == IF after = {} THEN Len(line) ELSE Least(after)
          IN  /\ ~context.raised
              /\ context.word_start = start
              /\ context.word_end = end
              /\ context.tokens = tokens
              /\ context.command = IF tokens = <<>> THEN None ELSE tokens[1]
              /\ context.subcommand
                     = IF Len(tokens) < 2 THEN None ELSE tokens[2]
              /\ context.args = [i \in 1..(Len(tokens) - 2) |-> tokens[i + 2]]
              /\ (start < cursor_pos /\ cursor_pos < end)
                 => context.current_word = SubSeq(line, start + 1, end)
    /\ (calls = 1 /\ line = <<"g","i","t"," ","c","o","m","m","i","t"," ","-","m">> /\ cursor_pos = 12)
       => /\ context.command = <<"g","i","t">>
          /\ context.subcommand = <<"c","o","m","m","i","t">>
          /\ context.current_word = <<"-","m">>

\* The cursor strictly inside a word that has whitespace on both sides.
C22_Witness ==
    /\ calls = 1 /\ ~context.raised
    /\ 0 < context.word_start
    /\ context.word_start < cursor_pos /\ cursor_pos < context.word_end
    /\ context.word_end < Len(line)
    /\ Len(context.current_word) = context.word_end - context.word_start
    /\ context.command # None

\* --------------------------------------------------------------------- C23
\* What predict returns for a context when it is the first call of the
\* process: the table is as declared and the cache is empty.
FirstCallResult(ctx) ==
    FilterAndRank(RawSuggestions(DeclaredCommands, ctx).suggestions, ctx)

\* C23: predict is history-independent on recomputation: whenever the entry
\* of the context's key is absent, at the first call or after clear or
\* invalidate, predict returns for that context the list it returns for it
\* as a first call, whatever predict calls came in between; predicting for
\* "ls" twice with the cache cleared in between gives the same list twice.
C23_HistoryIndependent ==
    Missed => ret.value = FirstCallResult(context)

\* --------------------------------------------------------------------- C24
\* The words tried as subcommand of cmd on the table as it is now: every
\* entry of its subcommand list, the first character of every entry, every
\* key of its flags, and a word the table does not know.
LoopWords(cmd) ==
    LET subs == COMMANDS[cmd].subcommands
    IN  {subs[i] : i \in 1..Len(subs)}
            \cup {<<subs[i][1]>> : i \in 1..Len(subs)}
            \cup (DOMAIN COMMANDS[cmd].flags \ {<<>>})
            \cup {<<"x">>}

\* The context of a line prefix with the tokens cmd and s.
ContextWith(cmd, s) ==
    [EmptyContext EXCEPT !.command = cmd, !.subcommand = s]

\* C24: predict terminates for every context: the loop that appends the
\* flags of each matching subcommand runs over the list it extends and still
\* reaches its end, for every command and subcommand prefix, in every state
\* of the command table that earlier predict calls can leave.
C24_LoopTerminates ==
    /\ ret.exc # "hang"
    /\ \A cmd \in DOMAIN COMMANDS : \A s \in LoopWords(cmd) :
           ~RawSuggestions(COMMANDS, ContextWith(cmd, s)).hangs

\* The loop has run over a subcommand list that an earlier call extended
\* with the global flags: every flag of ls matched the prefix "-".
C24_Witness ==
    /\ Missed
    /\ COMMANDS # DeclaredCommands
    /\ context.command = <<"l","s">> /\ context.subcommand = <<"-">>
    /\ Len(RawSuggestions(COMMANDS, context).suggestions) >= 18
    /\ Len(ret.value) = 2

\* --------------------------------------------------------------------- C25
\* C25 (as claimed): a key that was just stored survives the eviction its
\* own put triggers: for every max_size >= 1 and whatever the cache held
\* before, get(key) right after put(key, s) is a hit and returns s.
C25_PutSurvives ==
    [][\A key \in RunKeys, s \in CacheSuggestions :
          (set(key, s, RunTTL) /\ ret'.exc = "none" /\ max_size >= 1)
          => /\ cache_get(cache', key, now').found
             /\ cache_get(cache', key, now').value = s]_vars

\* Every entry under another key was last used before the time t.
OthersOlder(c, key, t) ==
    \A i \in 1..Len(c) : c[i].key # key => c[i].last_used < t

\* C25, where it does hold: for every max_size >= 1, if every other entry of
\* the cache was last used before the put (its last_used is earlier than the
\* one the put writes), get(key) right after put(key, s) is a hit and
\* returns s.
C25_PutSurvivesOlder ==
    [][\A key \in RunKeys, s \in CacheSuggestions :
          (/\ set(key, s, RunTTL) /\ ret'.exc = "none" /\ max_size >= 1
           /\ OthersOlder(cache, key, now'))
          => /\ cache_get(cache', key, now').found
             /\ cache_get(cache', key, now').value = s]_vars

====
